---- MODULE Spec2Model ----
(***************************************************************************)
(* Model of the ArChange exchange-rate service: the fetch pipeline         *)
(* (app/fetch_exchange.py), the persistence helpers (app/db.py), the job   *)
(* wrapper (app/job.py), the FastAPI handlers and APScheduler wiring       *)
(* (app/main.py) and the scheduler setting of app/config.py.               *)
(*                                                                         *)
(* Upstream and request numbers are integers counting halves (1415.5 is    *)
(* 2831); Decimal values are integers counting quarters, so that           *)
(* (buy + sell) / 2 is exact for every such price.                         *)
(***************************************************************************)
EXTENDS Integers, Sequences, FiniteSets, TLC

\* ------------------------------------------------------------------ bounds
MaxRuns == 2        \* pipeline invocations over the life of the process
MaxItems == 2       \* longest upstream array
MaxStartups == 2    \* startup events delivered to one process
MaxPrice == 3       \* largest upstream price, in halves
MaxCreates == 1     \* POST /api/exchange requests
MaxHours == 3       \* largest SCHEDULER_INTERVAL_HOURS of the environment

RunIds == 1..MaxRuns

\* ------------------------------------------------------- upstream payloads
Absent == "<absent>"    \* the key is missing from the JSON object

\* a JSON number: the integer n, or the float h / 2
Num(n) == [t |-> "num", v |-> 2 * n]
Flt(h) == [t |-> "num", v |-> h]
NoKey == [t |-> "absent", v |-> 0]
JsonNull == [t |-> "null", v |-> 0]

Obj(casa, compra, venta) ==
    [kind |-> "obj", casa |-> casa, compra |-> compra, venta |-> venta]
\* an array element that is not a JSON object (a string, a number, ...)
NonObj == [kind |-> "str", casa |-> Absent, compra |-> NoKey, venta |-> NoKey]

Elements ==
    { Obj("blue", Num(1415), Num(1435)),
      Obj("oficial", Num(1425), Num(1475)),
      Obj(Absent, JsonNull, Num(3)),
      NonObj }

RECURSIVE SeqsUpTo(_, _)
SeqsUpTo(S, n) ==
    IF n = 0 THEN { <<>> }
    ELSE LET shorter == SeqsUpTo(S, n - 1)
         IN  shorter \cup { Append(s, e) : s \in shorter, e \in S }

Body(kind, items) == [kind |-> kind, items |-> items]

\* A JSON array, a JSON object (iterating a dict yields its keys, which are
\* strings) or a scalar (number, null: not iterable).
Bodies ==
    { Body("array", s) : s \in SeqsUpTo(Elements, MaxItems) }
    \cup { Body("object", <<>>), Body("object", <<NonObj>>), Body("scalar", <<>>) }

TransportFailures == {"timeout", "connect", "status", "badjson"}

Response(kind, body) == [kind |-> kind, body |-> body]

Responses ==
    { Response(k, Body("scalar", <<>>)) : k \in TransportFailures }
    \cup { Response("json", b) : b \in Bodies }

\* the responses the whole-system specification draws from: a transport
\* failure and an array of one well-formed object
FewResponses ==
    { Response("timeout", Body("scalar", <<>>)),
      Response("json", Body("array", << Obj("blue", Num(1415), Num(1435)) >>)) }

\* ------------------------------------------------------------- exceptions
NoExc == "none"
HTTPErrors == {"TimeoutException", "ConnectError", "HTTPStatusError"}
Exceptions ==
    HTTPErrors \cup {"JSONDecodeError", "TypeError", "AttributeError",
                     "InvalidOperation", "RuntimeError", "PoolClosed",
                     "DatabaseError"}

\* httpx.get / raise_for_status / response.json / iter(data)
FetchExc(resp) ==
    CASE resp.kind = "timeout" -> "TimeoutException"
      [] resp.kind = "connect" -> "ConnectError"
      [] resp.kind = "status" -> "HTTPStatusError"
      [] resp.kind = "badjson" -> "JSONDecodeError"
      [] resp.body.kind = "scalar" -> "TypeError"
      [] OTHER -> NoExc

\* item.get("casa", "unknown")
GetCasa(item) == IF item.casa = Absent THEN "unknown" ELSE item.casa

\* item.get("compra", 0) / item.get("venta", 0)
GetPrice(p) == IF p.t = "absent" THEN Num(0) ELSE p

\* Decimal(str(x)): halves in, quarters out
ToDecimal(p) == 2 * p.v

\* nullable column value
Some(v) == [null |-> FALSE, v |-> v]
Null == [null |-> TRUE, v |-> 0]

VARIABLES
    pool,             \* db.pool: "none" | "open" | "closed"
    store,            \* rows of exchange_rates, in insertion order
    runs,             \* state of each invocation of the pipeline
    lifecycle,        \* position of the process in startup/shutdown
    scheduler_state,  \* BackgroundScheduler: "stopped" | "running"
    jobs,             \* job store: ids of the registered jobs
    instances,        \* running instances of the job in the executor
    startups,         \* number of startup events handled so far
    tick,             \* history: what the last tick of the trigger did:
                      \* "none" | "started" | "skipped"
    creation,         \* state of the POST /api/exchange request
    listing,          \* last response of GET /api/exchange
    SCHEDULER_INTERVAL_HOURS   \* app.config: read from the environment

vars == <<pool, store, runs, lifecycle, scheduler_state, jobs, instances,
          startups, tick, creation, listing, SCHEDULER_INTERVAL_HOURS>>

\* -------------------------------------------------------------- pipeline
NoResult == [status |-> "pending"]

IdleRun ==
    [pc |-> "idle", origin |-> "none", upstream |-> "none",
     data |-> Body("scalar", <<>>), idx |-> 0, inserted_count |-> 0,
     errors |-> <<>>, exchanges |-> <<>>, exc |-> NoExc,
     result |-> NoResult, http |-> 0,
     outcomes |-> <<>>]   \* history: what each iteration's try body raised

\* variant: the array is walked from its last element
Iter_reversed(data) ==
    [i \in 1..Len(data.items) |-> data.items[Len(data.items) + 1 - i]]

\* for item in data: a dict iterates over its keys
Iter(data) == data.items

\* the try body of one loop iteration raises this, or completes
TryBodyExc(item, p, db_ok) ==
    CASE item.kind # "obj" -> "AttributeError"
      [] GetPrice(item.compra).t # "num" -> "InvalidOperation"
      [] GetPrice(item.venta).t # "num" -> "InvalidOperation"
      [] p = "none" -> "RuntimeError"
      [] p = "closed" -> "PoolClosed"
      [] ~db_ok -> "DatabaseError"
      [] OTHER -> NoExc

\* variant: the exchange object is appended after the insert
Appended_after_insert(item, e) == item.kind = "obj" /\ e = NoExc

\* the exchange object is appended before the conversion and the insert,
\* whatever they raise afterwards
Appended(item, e) == item.kind = "obj"

\* DolarApiRate(...): the plain holder class of app/dolar_api.py
ExchangeOf(item) ==
    [casa |-> GetCasa(item), compra |-> GetPrice(item.compra),
     venta |-> GetPrice(item.venta)]

\* variant: the average is taken with integer division
Row_floor(item, id, by) ==
    LET buy == ToDecimal(GetPrice(item.compra))
        sell == ToDecimal(GetPrice(item.venta))
    IN  [id |-> id, type |-> GetCasa(item), buy |-> Some(buy),
         sell |-> Some(sell), rate |-> Some(((buy + sell) \div 8) * 4),
         diff |-> Some(sell - buy), by |-> by]

\* the row db.insert_exchange(exchange.casa, buy, sell, rate, diff) writes
Row(item, id, by) ==
    LET buy == ToDecimal(GetPrice(item.compra))
        sell == ToDecimal(GetPrice(item.venta))
    IN  [id |-> id, type |-> GetCasa(item), buy |-> Some(buy),
         sell |-> Some(sell), rate |-> Some((buy + sell) \div 2),
         diff |-> Some(sell - buy), by |-> by]

\* variant: a row of a type already stored replaces the stored row
insert_exchange_upsert(st, row) ==
    IF \E i \in 1..Len(st) : st[i].type = row.type
    THEN [i \in 1..Len(st) |->
            IF st[i].type = row.type THEN [row EXCEPT !.id = st[i].id]
            ELSE st[i]]
    ELSE Append(st, row)

\* variant: a row equal to a stored one is not inserted again
insert_exchange_dedup(st, row) ==
    IF \E i \in 1..Len(st) :
          /\ st[i].type = row.type /\ st[i].buy = row.buy
          /\ st[i].sell = row.sell /\ st[i].rate = row.rate
          /\ st[i].diff = row.diff
    THEN st ELSE Append(st, row)

\* INSERT INTO exchange_rates ... RETURNING id; commit
insert_exchange(st, row) == Append(st, row)

\* the id the SERIAL column gives the next row
NextId(st) == Len(st) + 1

\* variant: the counter is incremented before the insert is known to succeed
Counted_early(n, e) == n + 1

\* inserted_count += 1 comes after the insert, inside the try
Counted(n, e) == IF e = NoExc THEN n + 1 ELSE n

\* variant: the inner handler logs and re-raises
InnerHandlerExc_reraise(item, e) == e

\* except Exception as e (inner): the handler itself calls item.get
InnerHandlerExc(item, e) ==
    IF item.kind # "obj" THEN "AttributeError" ELSE NoExc

\* variant: the entry does not name the item
ErrorEntry_anonymous(item, e) == [casa |-> "unknown", exc |-> e]

\* errors.append(f"Error inserting {item.get('casa', 'unknown')}: {str(e)}")
ErrorEntry(item, e) == [casa |-> GetCasa(item), exc |-> e]

\* variant: only the first except clause exists
Caught_http_only(e) == e \in HTTPErrors

\* except httpx.HTTPError / except Exception (outer)
Caught(e) == e \in HTTPErrors \/ e \in Exceptions

\* variant: the error outcome also carries zeroed counters
ErrorResult_counters(e) ==
    [status |-> "error", message |-> <<"Error: ", e>>, inserted |-> 0,
     total |-> 0]

\* the dict the matching except clause returns
ErrorResult(e) ==
    IF e \in HTTPErrors
    THEN [status |-> "error", message |-> <<"HTTP error fetching data: ", e>>]
    ELSE [status |-> "error", message |-> <<"Error: ", e>>]

\* the dict returned after the loop
OkResult(run) ==
    [status |-> "ok", inserted |-> run.inserted_count,
     total |-> Len(run.data.items), exchanges |-> run.exchanges,
     errors |-> IF run.errors = <<>> THEN [null |-> TRUE, list |-> <<>>]
                ELSE [null |-> FALSE, list |-> run.errors]]

\* an exception leaves the outer try block
Unwind(run, e) ==
    IF Caught(e)
    THEN [run EXCEPT !.pc = "returned", !.result = ErrorResult(e)]
    ELSE [run EXCEPT !.pc = "raised", !.exc = e]

\* lines 20-26: the upstream call, the status check, the parse
Fetch(r, resps) ==
    /\ runs[r].pc = "fetch"
    /\ \E resp \in resps :
         LET e == FetchExc(resp)
             got == [runs[r] EXCEPT !.upstream = resp.kind]
         IN  runs' = [runs EXCEPT ![r] =
                 IF e # NoExc THEN Unwind(got, e)
                 ELSE [got EXCEPT !.pc = "loop", !.data = resp.body]]
    /\ UNCHANGED <<pool, store, lifecycle, scheduler_state, jobs, instances,
                   startups, tick,
                   creation, listing, SCHEDULER_INTERVAL_HOURS>>

\* lines 29-59: one iteration of the loop
ProcessItem(r) ==
    /\ runs[r].pc = "loop"
    /\ runs[r].idx < Len(Iter(runs[r].data))
    /\ \E db_ok \in BOOLEAN :
         LET run == runs[r]
             item == Iter(run.data)[run.idx + 1]
             e == TryBodyExc(item, pool, db_ok)
             h == IF e = NoExc THEN NoExc ELSE InnerHandlerExc(item, e)
             seen == [run EXCEPT
                        !.idx = @ + 1,
                        !.outcomes = Append(@, e),
                        !.inserted_count = Counted(@, e),
                        !.exchanges = IF Appended(item, e)
                                      THEN Append(@, ExchangeOf(item)) ELSE @]
         IN  /\ store' = IF e = NoExc
                         THEN insert_exchange(store, Row(item, NextId(store), r))
                         ELSE store
             /\ runs' = [runs EXCEPT ![r] =
                   CASE e = NoExc -> seen
                     [] e # NoExc /\ h = NoExc ->
                          [seen EXCEPT !.errors = Append(@, ErrorEntry(item, e))]
                     [] OTHER -> Unwind(seen, h)]
    /\ UNCHANGED <<pool, lifecycle, scheduler_state, jobs, instances,
                   startups, tick,
                   creation, listing, SCHEDULER_INTERVAL_HOURS>>

\* lines 32-54, up to the point where insert_exchange holds a connection of
\* the pool: the same iteration as ProcessItem, for the schedules in which
\* other threads run between the acquisition and the commit
BeginInsert(r) ==
    /\ runs[r].pc = "loop"
    /\ runs[r].idx < Len(Iter(runs[r].data))
    /\ TryBodyExc(Iter(runs[r].data)[runs[r].idx + 1], pool, TRUE) = NoExc
    /\ runs' = [runs EXCEPT ![r] = [runs[r] EXCEPT !.pc = "insert"]]
    /\ UNCHANGED <<pool, store, lifecycle, scheduler_state, jobs, instances,
                   startups, tick, creation, listing,
                   SCHEDULER_INTERVAL_HOURS>>

\* lines 54-59: the statement and the commit on the connection held, which
\* a close of the pool does not take away, then the end of the iteration
EndInsert(r) ==
    /\ runs[r].pc = "insert"
    /\ \E db_ok \in BOOLEAN :
         LET run == runs[r]
             item == Iter(run.data)[run.idx + 1]
             e == IF db_ok THEN NoExc ELSE "DatabaseError"
             seen == [run EXCEPT
                        !.pc = "loop",
                        !.idx = @ + 1,
                        !.outcomes = Append(@, e),
                        !.inserted_count = Counted(@, e),
                        !.exchanges = IF Appended(item, e)
                                      THEN Append(@, ExchangeOf(item)) ELSE @]
         IN  /\ store' = IF e = NoExc
                         THEN insert_exchange(store, Row(item, NextId(store), r))
                         ELSE store
             /\ runs' = [runs EXCEPT ![r] =
                   IF e = NoExc THEN seen
                   ELSE [seen EXCEPT !.errors = Append(@, ErrorEntry(item, e))]]
    /\ UNCHANGED <<pool, lifecycle, scheduler_state, jobs, instances,
                   startups, tick, creation, listing,
                   SCHEDULER_INTERVAL_HOURS>>

\* lines 61-77: the loop is over, the summary is built and returned
Return(r) ==
    /\ runs[r].pc = "loop"
    /\ runs[r].idx = Len(Iter(runs[r].data))
    /\ runs' = [runs EXCEPT ![r] =
                  [runs[r] EXCEPT !.pc = "returned",
                                  !.result = OkResult(runs[r])]]
    /\ UNCHANGED <<pool, store, lifecycle, scheduler_state, jobs, instances,
                   startups, tick,
                   creation, listing, SCHEDULER_INTERVAL_HOURS>>

\* ------------------------------------------------------------ job wrapper
\* variant: the message does not carry the text of the exception
run_job_silent(run) ==
    CASE run.pc = "unavailable" ->
            [status |-> "error",
             message |-> <<"fetch_and_store_exchange_rates not available">>]
      [] run.pc = "raised" ->
            [status |-> "error", message |-> <<"Job failed">>]
      [] OTHER -> run.result

\* run_job: the pipeline's value unchanged, status=error if the pipeline
\* could not be imported or if it raised
run_job(run) ==
    CASE run.pc = "unavailable" ->
            [status |-> "error",
             message |-> <<"fetch_and_store_exchange_rates not available">>]
      [] run.pc = "raised" ->
            [status |-> "error", message |-> <<"Job failed: ", run.exc>>]
      [] OTHER -> run.result

\* run_job around a pipeline that raises (mock_fetch.side_effect)
PipelineRaises(r) ==
    /\ runs[r].pc = "fetch"
    /\ runs[r].origin \in {"run_job", "scheduled"}
    /\ \E e \in Exceptions :
          runs' = [runs EXCEPT ![r] = [runs[r] EXCEPT !.pc = "raised",
                                                      !.exc = e]]
    /\ UNCHANGED <<pool, store, lifecycle, scheduler_state, jobs, instances,
                   startups, tick, creation, listing,
                   SCHEDULER_INTERVAL_HOURS>>

\* run_job in a process where the import of the pipeline failed:
\* fetch_and_store_exchange_rates is None
PipelineUnavailable(r) ==
    /\ runs[r].pc = "fetch"
    /\ runs[r].origin \in {"run_job", "scheduled"}
    /\ runs' = [runs EXCEPT ![r] = [runs[r] EXCEPT !.pc = "unavailable"]]
    /\ UNCHANGED <<pool, store, lifecycle, scheduler_state, jobs, instances,
                   startups, tick, creation, listing,
                   SCHEDULER_INTERVAL_HOURS>>

\* ---------------------------------------------------------------- API layer
\* FastAPI validates the returned dict against FetchExchangeResponse
\* (ExchangeData.compra / venta are required floats)
ResponseValid(result) ==
    \/ result.status # "ok"
    \/ \A i \in 1..Len(result.exchanges) :
          /\ result.exchanges[i].compra.t = "num"
          /\ result.exchanges[i].venta.t = "num"

\* neither handler sets a status code or raises HTTPException
HttpStatus(result) == IF ResponseValid(result) THEN 200 ELSE 500

FreeRuns(slots) == { r \in slots : runs[r].pc = "idle" }
NextRun(slots) == CHOOSE r \in FreeRuns(slots) : \A q \in FreeRuns(slots) : r <= q

StartRun(r, origin) ==
    [runs EXCEPT ![r] = [IdleRun EXCEPT !.pc = "fetch", !.origin = origin]]

\* POST /api/exchange/fetch is received
FetchRequest(slots) ==
    /\ lifecycle = "serving"
    /\ FreeRuns(slots) # {}
    /\ runs' = StartRun(NextRun(slots), "api_fetch")
    /\ UNCHANGED <<pool, store, lifecycle, scheduler_state, jobs, instances,
                   startups, tick,
                   creation, listing, SCHEDULER_INTERVAL_HOURS>>

\* POST /run-job is received
RunJobRequest(slots) ==
    /\ lifecycle = "serving"
    /\ FreeRuns(slots) # {}
    /\ runs' = StartRun(NextRun(slots), "run_job")
    /\ UNCHANGED <<pool, store, lifecycle, scheduler_state, jobs, instances,
                   startups, tick,
                   creation, listing, SCHEDULER_INTERVAL_HOURS>>

\* fetch_exchange_rates returns: the response is sent
FetchRespond(r) ==
    /\ runs[r].origin = "api_fetch"
    /\ runs[r].pc \in {"returned", "raised"}
    /\ runs' = [runs EXCEPT ![r] =
          [runs[r] EXCEPT !.pc = "done",
                          !.http = IF runs[r].pc = "raised" THEN 500
                                   ELSE HttpStatus(runs[r].result)]]
    /\ UNCHANGED <<pool, store, lifecycle, scheduler_state, jobs, instances,
                   startups, tick,
                   creation, listing, SCHEDULER_INTERVAL_HOURS>>

\* run_job_endpoint returns: the response is sent
RunJobRespond(r) ==
    /\ runs[r].origin = "run_job"
    /\ runs[r].pc \in {"returned", "raised", "unavailable"}
    /\ runs' = [runs EXCEPT ![r] =
          [runs[r] EXCEPT !.pc = "done", !.result = run_job(runs[r]),
                          !.http = HttpStatus(run_job(runs[r]))]]
    /\ UNCHANGED <<pool, store, lifecycle, scheduler_state, jobs, instances,
                   startups, tick,
                   creation, listing, SCHEDULER_INTERVAL_HOURS>>

\* ------------------------------------------------- manual create and list
Payload(type, buy, sell, rate, diff) ==
    [type |-> type, buy |-> buy, sell |-> sell, rate |-> rate, diff |-> diff]

\* an Optional[float] body parameter: omitted, or 0.5, 1.0, ... MaxPrice / 2
OptionalFloats == { Null } \cup { Some(h) : h \in 1..MaxPrice }

Payloads ==
    { Payload("manual", b, s, r, d) : b, s, r, d \in OptionalFloats }

\* the payloads the specification of the store draws from
FewPayloads ==
    { Payload("manual", Null, Null, Null, Null),
      Payload("blue", Some(2), Some(3), Null, Some(0)) }

IdleCreation ==
    [pc |-> "idle", payload |-> Payload("", Null, Null, Null, Null),
     new_id |-> 0, result |-> NoResult, http |-> 0,
     n |-> 0]    \* requests received so far

NoListing == [status |-> "pending"]

\* Decimal(str(x)) if x is not None else None
OptDecimal(x) == IF x.null THEN Null ELSE Some(ToDecimal(x))

\* float(self.buy) if self.buy is not None else None: quarters in, halves
\* out, exact for the values a request can carry
OptFloat(d) == IF d.null THEN Null ELSE Some(d.v \div 2)

\* variant: rate and diff are derived from buy and sell when both are given
CreatedRow_derived(p, id) ==
    LET both == ~p.buy.null /\ ~p.sell.null
    IN  [id |-> id, type |-> p.type, buy |-> OptDecimal(p.buy),
         sell |-> OptDecimal(p.sell),
         rate |-> IF both THEN Some(p.buy.v + p.sell.v) ELSE OptDecimal(p.rate),
         diff |-> IF both THEN Some(2 * (p.sell.v - p.buy.v))
                  ELSE OptDecimal(p.diff),
         by |-> 0]

\* the row db.insert_exchange(type, buy_dec, sell_dec, rate_dec, diff_dec)
\* writes; by = 0: not written by a run of the pipeline
CreatedRow(p, id) ==
    [id |-> id, type |-> p.type, buy |-> OptDecimal(p.buy),
     sell |-> OptDecimal(p.sell), rate |-> OptDecimal(p.rate),
     diff |-> OptDecimal(p.diff), by |-> 0]

\* what a db helper raises: pool is None, the pool is closed, the statement
\* fails
DbExc(p, db_ok) ==
    CASE p = "none" -> "RuntimeError"
      [] p = "closed" -> "PoolClosed"
      [] ~db_ok -> "DatabaseError"
      [] OTHER -> NoExc

\* SELECT ... WHERE id = %s; fetchone()
get_exchange_by_id(st, id) == { i \in 1..Len(st) : st[i].id = id }

\* Exchange.from_row(row).to_dict()
to_dict(row) ==
    [id |-> row.id, type |-> row.type, buy |-> OptFloat(row.buy),
     sell |-> OptFloat(row.sell), rate |-> OptFloat(row.rate),
     diff |-> OptFloat(row.diff)]

ListLimit == 100    \* db.get_exchanges(limit=100)

\* SELECT ... ORDER BY id DESC LIMIT %s: the store keeps rows by increasing id
get_exchanges(st, limit) ==
    LET n == IF Len(st) < limit THEN Len(st) ELSE limit
    IN  [i \in 1..n |-> st[Len(st) + 1 - i]]

\* POST /api/exchange is received
CreateRequest(payloads, limit) ==
    /\ lifecycle = "serving"
    /\ creation.pc \in {"idle", "done"}
    /\ creation.n < limit
    /\ \E p \in payloads :
          creation' = [IdleCreation EXCEPT !.pc = "insert", !.payload = p,
                                           !.n = creation.n + 1]
    /\ UNCHANGED <<pool, store, runs, lifecycle, scheduler_state, jobs,
                   instances, startups, tick, listing,
                   SCHEDULER_INTERVAL_HOURS>>

\* create_exchange, lines 198-204: the conversions and db.insert_exchange
CreateInsert ==
    /\ creation.pc = "insert"
    /\ \E db_ok \in BOOLEAN :
          LET e == DbExc(pool, db_ok)
          IN  IF e = NoExc
              THEN /\ store' = insert_exchange(store,
                                   CreatedRow(creation.payload, NextId(store)))
                   /\ creation' = [creation EXCEPT !.pc = "read",
                                                   !.new_id = NextId(store)]
              ELSE /\ store' = store
                   /\ creation' = [creation EXCEPT !.pc = "returned",
                         !.result = [status |-> "error", message |-> e]]
    /\ UNCHANGED <<pool, runs, lifecycle, scheduler_state, jobs, instances,
                   startups, tick, listing, SCHEDULER_INTERVAL_HOURS>>

\* create_exchange, lines 206-212: db.get_exchange_by_id, from_row, to_dict;
\* from_row gives None for no row, and None has no to_dict
CreateRead ==
    /\ creation.pc = "read"
    /\ \E db_ok \in BOOLEAN :
          LET e == DbExc(pool, db_ok)
              found == get_exchange_by_id(store, creation.new_id)
          IN  creation' = [creation EXCEPT !.pc = "returned", !.result =
                 IF e # NoExc THEN [status |-> "error", message |-> e]
                 ELSE IF found = {}
                      THEN [status |-> "error", message |-> "AttributeError"]
                      ELSE [status |-> "ok",
                            data |-> to_dict(store[CHOOSE i \in found : TRUE])]]
    /\ UNCHANGED <<pool, store, runs, lifecycle, scheduler_state, jobs,
                   instances, startups, tick, listing,
                   SCHEDULER_INTERVAL_HOURS>>

\* the response is validated against ExchangeCreateResponse, whose data
\* field is required, and sent
CreateRespond ==
    /\ creation.pc = "returned"
    /\ creation' = [creation EXCEPT !.pc = "done", !.http =
                       IF creation.result.status = "ok" THEN 200 ELSE 500]
    /\ UNCHANGED <<pool, store, runs, lifecycle, scheduler_state, jobs,
                   instances, startups, tick, listing,
                   SCHEDULER_INTERVAL_HOURS>>

\* GET /api/exchange: get_exchange reads the newest rows
get_exchange ==
    /\ lifecycle = "serving"
    /\ \E db_ok \in BOOLEAN :
          LET e == DbExc(pool, db_ok)
              rows == get_exchanges(store, ListLimit)
          IN  listing' =
                 IF e # NoExc THEN [status |-> "error", message |-> e]
                 ELSE [status |-> "ok",
                       data |-> [i \in 1..Len(rows) |-> to_dict(rows[i])]]
    /\ UNCHANGED <<pool, store, runs, lifecycle, scheduler_state, jobs,
                   instances, startups, tick, creation,
                   SCHEDULER_INTERVAL_HOURS>>

\* ---------------------------------------------------------------- scheduler
DefaultHours == 2    \* os.getenv("SCHEDULER_INTERVAL_HOURS", "2")

max_instances == 1   \* add_job is called without max_instances

\* variant: the job may run any number of instances at once
MayRun_unlimited(n) == TRUE

\* the executor accepts a run of the job while fewer than max_instances of
\* its instances are running
MayRun(n) == n < max_instances

TheJob == [id |-> "demo_scheduled_job", func |-> "scheduled_task", hours |-> 2]

JobIndex(js, id) == { i \in 1..Len(js) : js[i].id = id }

\* variant: the job is added without looking for its id
AddJob_duplicate(js, job, replace_existing) == Append(js, job)

\* scheduler.add_job(..., id=..., replace_existing=...)
AddJob(js, job, replace_existing) ==
    IF JobIndex(js, job.id) = {} THEN Append(js, job)
    ELSE IF replace_existing
         THEN [i \in 1..Len(js) |-> IF js[i].id = job.id THEN job ELSE js[i]]
         ELSE js

\* db.run_migration(001_create_exchange_rates.sql): the table is created if
\* it does not exist, the rows of an existing table are kept
run_migration(st) == st

\* startup_event: init_pool, migration, add_job, scheduler.start
startup_event ==
    /\ lifecycle \in {"created", "serving"}
    /\ startups < MaxStartups
    /\ \E init_ok \in BOOLEAN :
          pool' = IF pool = "none" /\ init_ok THEN "open" ELSE pool
    /\ store' = IF pool' = "open" THEN run_migration(store) ELSE store
    /\ jobs' = AddJob(jobs, TheJob, TRUE)
    /\ scheduler_state' = "running"
    /\ lifecycle' = "serving"
    /\ startups' = startups + 1
    /\ UNCHANGED <<runs, instances, tick,
                   creation, listing, SCHEDULER_INTERVAL_HOURS>>

\* the interval of job j elapses: the executor runs scheduled_task unless
\* max_instances instances of the job are still running
Tick(j, slots) ==
    /\ scheduler_state = "running"
    /\ j \in 1..Len(jobs)
    /\ tick' = IF MayRun(instances) THEN "started" ELSE "skipped"
    /\ IF MayRun(instances)
       THEN /\ FreeRuns(slots) # {}
            /\ runs' = StartRun(NextRun(slots), "scheduled")
            /\ instances' = instances + 1
       ELSE UNCHANGED <<runs, instances>>
    /\ UNCHANGED <<pool, store, lifecycle, scheduler_state, jobs, startups,
                   creation, listing, SCHEDULER_INTERVAL_HOURS>>

\* variant: a failed cycle unregisters the job
scheduled_task_stop_on_error(r) ==
    /\ runs[r].origin = "scheduled"
    /\ runs[r].pc \in {"returned", "raised", "unavailable"}
    /\ runs' = [runs EXCEPT ![r] = [runs[r] EXCEPT !.pc = "done",
                                          !.result = run_job(runs[r])]]
    /\ instances' = instances - 1
    /\ jobs' = IF run_job(runs[r]).status = "error" THEN <<>> ELSE jobs
    /\ UNCHANGED <<pool, store, lifecycle, scheduler_state, startups, tick,
                   creation, listing, SCHEDULER_INTERVAL_HOURS>>

\* scheduled_task returns run_job("scheduled"); the executor releases the
\* instance
scheduled_task(r) ==
    /\ runs[r].origin = "scheduled"
    /\ runs[r].pc \in {"returned", "raised", "unavailable"}
    /\ runs' = [runs EXCEPT ![r] = [runs[r] EXCEPT !.pc = "done",
                                          !.result = run_job(runs[r])]]
    /\ instances' = instances - 1
    /\ UNCHANGED <<pool, store, lifecycle, scheduler_state, jobs, startups, tick,
                   creation, listing, SCHEDULER_INTERVAL_HOURS>>

\* variant: the handler closes the pool and leaves the scheduler running
shutdown_event_pool_only ==
    /\ lifecycle = "serving"
    /\ lifecycle' = "stopping"
    /\ UNCHANGED <<pool, store, runs, scheduler_state, jobs, instances,
                   startups, tick, creation, listing,
                   SCHEDULER_INTERVAL_HOURS>>

\* shutdown_event, first half: scheduler.shutdown(wait=False) returns
\* without joining the thread of a running job
shutdown_event ==
    /\ lifecycle = "serving"
    /\ scheduler_state' = "stopped"
    /\ jobs' = <<>>
    /\ lifecycle' = "stopping"
    /\ UNCHANGED <<pool, store, runs, instances, startups, tick,
                   creation, listing, SCHEDULER_INTERVAL_HOURS>>

\* close_pool: if pool is not None: pool.close(), which closes the pool or
\* raises and leaves it open
close_pool ==
    /\ lifecycle = "stopping"
    /\ \E close_ok \in BOOLEAN :
          pool' = IF pool # "none" /\ close_ok THEN "closed" ELSE pool
    /\ lifecycle' = "closing"
    /\ UNCHANGED <<store, runs, scheduler_state, jobs, instances, startups, tick,
                   creation, listing, SCHEDULER_INTERVAL_HOURS>>

\* close_pool: finally: pool = None
close_pool_finally ==
    /\ lifecycle = "closing"
    /\ pool' = "none"
    /\ lifecycle' = "stopped"
    /\ UNCHANGED <<store, runs, scheduler_state, jobs, instances, startups, tick,
                   creation, listing, SCHEDULER_INTERVAL_HOURS>>

\* ------------------------------------------------------------ specification
Init ==
    /\ pool = "none"
    /\ store = <<>>
    /\ runs = [r \in RunIds |-> IdleRun]
    /\ lifecycle = "created"
    /\ scheduler_state = "stopped"
    /\ jobs = <<>>
    /\ instances = 0
    /\ startups = 0
    /\ tick = "none"
    /\ creation = IdleCreation
    /\ listing = NoListing
    /\ SCHEDULER_INTERVAL_HOURS = DefaultHours

\* the whole system: up to MaxRuns invocations, scheduled or requested
\* through POST /api/exchange/fetch, concurrent or not
Next ==
    \/ startup_event
    \/ FetchRequest(RunIds)
    \/ \E j \in DOMAIN jobs : Tick(j, RunIds)
    \/ \E r \in RunIds : Fetch(r, FewResponses)
    \/ \E r \in RunIds : ProcessItem(r)
    \/ \E r \in RunIds : Return(r)
    \/ \E r \in RunIds : FetchRespond(r)
    \/ \E r \in RunIds : scheduled_task(r)
    \/ shutdown_event
    \/ close_pool
    \/ close_pool_finally

Spec == Init /\ [][Next]_vars

\* a row an earlier process left in exchange_rates
OldRow ==
    [id |-> 1, type |-> "blue", buy |-> Some(5660), sell |-> Some(5740),
     rate |-> Some(5700), diff |-> Some(80), by |-> 0]

\* the table is empty after the first migration, or holds earlier rows
InitOneRun ==
    /\ pool = "none"
    /\ store \in { <<>>, <<OldRow>> }
    /\ runs = [r \in RunIds |-> IdleRun]
    /\ lifecycle = "created"
    /\ scheduler_state = "stopped"
    /\ jobs = <<>>
    /\ instances = 0
    /\ startups = 0
    /\ tick = "none"
    /\ creation = IdleCreation
    /\ listing = NoListing
    /\ SCHEDULER_INTERVAL_HOURS = DefaultHours

\* one invocation of the pipeline, over every upstream response
NextOneRun ==
    \/ startup_event
    \/ FetchRequest({1})
    \/ RunJobRequest({1})
    \/ \E j \in DOMAIN jobs : Tick(j, {1})
    \/ Fetch(1, Responses)
    \/ ProcessItem(1)
    \/ Return(1)
    \/ FetchRespond(1)
    \/ RunJobRespond(1)
    \/ scheduled_task(1)
    \/ shutdown_event
    \/ close_pool
    \/ close_pool_finally

SpecOneRun == InitOneRun /\ [][NextOneRun]_vars

\* the thread that runs the call keeps running: the upstream call is bounded
\* by timeout=10.0 and each insert returns or raises
SpecOneRunFair ==
    SpecOneRun /\ WF_vars(Fetch(1, Responses) \/ ProcessItem(1) \/ Return(1))

\* two well-formed items, in either order
OverlapResponses ==
    { Response("json", Body("array",
         << Obj("blue", Num(1415), Num(1435)),
            Obj("oficial", Num(1425), Num(1475)) >>)),
      Response("json", Body("array",
         << Obj("oficial", Num(1425), Num(1475)),
            Obj("blue", Num(1415), Num(1435)) >>)) }

\* two items: two objects, or an object and an element that is not one
CloseResponses ==
    { Response("json", Body("array",
         << Obj("blue", Num(1415), Num(1435)),
            Obj("oficial", Num(1425), Num(1475)) >>)),
      Response("json", Body("array",
         << Obj("blue", Num(1415), Num(1435)), NonObj >>)) }

\* one run, requested or scheduled, whose inserts the shutdown may overtake
\* at any point, between the acquisition of a connection and the commit too
NextClose ==
    \/ startup_event
    \/ FetchRequest({1})
    \/ \E j \in DOMAIN jobs : Tick(j, {1})
    \/ Fetch(1, CloseResponses)
    \/ ProcessItem(1)
    \/ BeginInsert(1)
    \/ EndInsert(1)
    \/ Return(1)
    \/ FetchRespond(1)
    \/ scheduled_task(1)
    \/ shutdown_event
    \/ close_pool
    \/ close_pool_finally

SpecClose == InitOneRun /\ [][NextClose]_vars

\* the thread of the run keeps running; the shutdown is not forced to come
SpecCloseFair ==
    SpecClose
    /\ WF_vars(Fetch(1, CloseResponses) \/ ProcessItem(1) \/ BeginInsert(1)
                  \/ EndInsert(1) \/ Return(1))

\* the process starts under any configured interval
InitConfig ==
    /\ pool = "none"
    /\ store = <<>>
    /\ runs = [r \in RunIds |-> IdleRun]
    /\ lifecycle = "created"
    /\ scheduler_state = "stopped"
    /\ jobs = <<>>
    /\ instances = 0
    /\ startups = 0
    /\ tick = "none"
    /\ creation = IdleCreation
    /\ listing = NoListing
    /\ SCHEDULER_INTERVAL_HOURS \in 1..MaxHours

SpecConfig == InitConfig /\ [][Next]_vars

\* the two invocations that overlap
OverlapRuns == {1, 2}

\* two runs, requested or scheduled, and the shutdown
NextShutdown ==
    \/ startup_event
    \/ FetchRequest(OverlapRuns)
    \/ \E j \in DOMAIN jobs : Tick(j, OverlapRuns)
    \/ \E r \in OverlapRuns : Fetch(r, FewResponses)
    \/ \E r \in OverlapRuns : ProcessItem(r)
    \/ \E r \in OverlapRuns : Return(r)
    \/ \E r \in OverlapRuns : FetchRespond(r)
    \/ \E r \in OverlapRuns : scheduled_task(r)
    \/ shutdown_event
    \/ close_pool
    \/ close_pool_finally

\* the thread that runs shutdown_event keeps running, whatever the threads
\* of the runs do: nothing in the handler waits for them
SpecShutdownFair ==
    /\ Init /\ [][NextShutdown]_vars
    /\ WF_vars(close_pool) /\ WF_vars(close_pool_finally)

\* a requested and a scheduled run over two items each, concurrent or not
NextOverlap ==
    \/ startup_event
    \/ FetchRequest(OverlapRuns)
    \/ \E j \in DOMAIN jobs : Tick(j, OverlapRuns)
    \/ \E r \in OverlapRuns : Fetch(r, OverlapResponses)
    \/ \E r \in OverlapRuns : ProcessItem(r)
    \/ \E r \in OverlapRuns : Return(r)
    \/ \E r \in OverlapRuns : FetchRespond(r)
    \/ \E r \in OverlapRuns : scheduled_task(r)

SpecOverlap == Init /\ [][NextOverlap]_vars

\* one manual create, over every payload
NextCreate ==
    \/ startup_event
    \/ CreateRequest(Payloads, 1)
    \/ CreateInsert
    \/ CreateRead
    \/ CreateRespond
    \/ shutdown_event
    \/ close_pool
    \/ close_pool_finally

SpecCreate == InitOneRun /\ [][NextCreate]_vars

\* every operation that reaches the store: one run of the pipeline,
\* requested or scheduled, manual creates, list reads, startup and shutdown
NextStore ==
    \/ startup_event
    \/ FetchRequest({1})
    \/ \E j \in DOMAIN jobs : Tick(j, {1})
    \/ Fetch(1, FewResponses)
    \/ ProcessItem(1)
    \/ Return(1)
    \/ FetchRespond(1)
    \/ scheduled_task(1)
    \/ CreateRequest(FewPayloads, MaxCreates)
    \/ CreateInsert
    \/ CreateRead
    \/ CreateRespond
    \/ get_exchange
    \/ shutdown_event
    \/ close_pool
    \/ close_pool_finally

SpecStore == InitOneRun /\ [][NextStore]_vars

\* run_job and scheduled_task around any pipeline: the real one, one that
\* raises, one that could not be imported
NextRunJob ==
    \/ startup_event
    \/ RunJobRequest({1})
    \/ \E j \in DOMAIN jobs : Tick(j, {1})
    \/ Fetch(1, Responses)
    \/ ProcessItem(1)
    \/ Return(1)
    \/ PipelineRaises(1)
    \/ PipelineUnavailable(1)
    \/ RunJobRespond(1)
    \/ scheduled_task(1)

SpecRunJob == Init /\ [][NextRunJob]_vars

\* every price an item may carry: missing, null, or 0, 0.5, ... MaxPrice / 2
Prices == { NoKey, JsonNull } \cup { Flt(h) : h \in 0..MaxPrice }

PriceResponses ==
    { Response("json", Body("array", << Obj("blue", c, v) >>)) :
         c \in Prices, v \in Prices }

\* one requested run over one item, over every pair of prices
NextPrices ==
    \/ startup_event
    \/ FetchRequest({1})
    \/ Fetch(1, PriceResponses)
    \/ ProcessItem(1)
    \/ Return(1)
    \/ FetchRespond(1)

SpecPrices == Init /\ [][NextPrices]_vars

\* ------------------------------------------------------------------ claims
RowsBy(r) == { i \in 1..Len(store) : store[i].by = r }
Returned(r) == runs[r].pc \in {"returned", "done"}
AllObjects(items) == \A i \in 1..Len(items) : items[i].kind = "obj"
PersistenceErrors == {"RuntimeError", "PoolClosed", "DatabaseError"}

\* the rows run r wrote, by increasing id
RowsOf(r) == SelectSeq(store, LAMBDA row : row.by = r)

\* the first n items of a run whose try body completed, in upstream order
RECURSIVE InsertedItems(_, _, _)
InsertedItems(items, outcomes, n) ==
    IF n = 0 THEN <<>>
    ELSE LET before == InsertedItems(items, outcomes, n - 1)
         IN  IF outcomes[n] = NoExc THEN Append(before, items[n]) ELSE before

\* C1: a run whose upstream call failed at transport level (timeout,
\* connection refused, non-2xx status, unparsable body) returns status=error
\* with a message and nothing else, and no row of the store was written by it.
C1_TransportFailure ==
    \A r \in RunIds :
       runs[r].upstream \in TransportFailures =>
          /\ Returned(r)
          /\ runs[r].result.status = "error"
          /\ DOMAIN runs[r].result = {"status", "message"}
          /\ RowsBy(r) = {}

\* a failed run has returned while the store holds an earlier row
C1_Witness ==
    \E r \in RunIds :
       /\ runs[r].upstream \in TransportFailures
       /\ runs[r].pc = "done"
       /\ store # <<>>

\* C2: a failed insert neither aborts the run nor undoes an insert: every
\* attempt so far either added a row that is still in the store or raised,
\* a run whose last attempt was a failed insert is still in the loop or has
\* returned status=ok after the last item, and over an array of objects the
\* run returns status=ok after attempting every item, however many failed.
C2_FailureIsolated ==
    \A r \in RunIds :
       /\ Len(runs[r].outcomes) = runs[r].idx
       /\ Cardinality(RowsBy(r)) =
             Cardinality({ i \in 1..runs[r].idx : runs[r].outcomes[i] = NoExc })
       /\ (runs[r].idx > 0 /\ runs[r].outcomes[runs[r].idx] \in PersistenceErrors) =>
             \/ runs[r].pc = "loop"
             \/ /\ Returned(r)
                /\ runs[r].result.status = "ok"
                /\ runs[r].idx = Len(runs[r].data.items)
       /\ (Returned(r) /\ runs[r].upstream = "json" /\ runs[r].data.kind = "array"
             /\ AllObjects(runs[r].data.items)) =>
             /\ runs[r].idx = Len(runs[r].data.items)
             /\ runs[r].result.status = "ok"

\* the insert of the first item failed, the second item was still inserted,
\* and the run returned
C2_Witness ==
    \E r \in RunIds :
       /\ runs[r].pc = "returned"
       /\ runs[r].idx = 2
       /\ runs[r].outcomes[1] \in PersistenceErrors
       /\ runs[r].outcomes[2] = NoExc
       /\ Cardinality(RowsBy(r)) = 1

\* C3: a run that returns status=ok over an array of N items reports
\* total = N and inserted = the number of rows it added to the store, which
\* is the number of its insert calls that succeeded, so inserted <= N.
C3_Counts ==
    \A r \in RunIds :
       (Returned(r) /\ runs[r].result.status = "ok") =>
          /\ runs[r].result.total = Len(runs[r].data.items)
          /\ runs[r].result.inserted = Cardinality(RowsBy(r))
          /\ runs[r].result.inserted =
                Cardinality({ i \in 1..Len(runs[r].outcomes) :
                                 runs[r].outcomes[i] = NoExc })
          /\ runs[r].result.inserted <= runs[r].result.total

\* two items, one insert succeeded and one failed
C3_Witness ==
    \E r \in RunIds :
       /\ runs[r].pc = "returned"
       /\ runs[r].result.status = "ok"
       /\ runs[r].result.total = 2
       /\ runs[r].result.inserted = 1

\* the error entries expected for the first n items: one per item that was
\* not inserted, in upstream order, naming the item's casa
RECURSIVE ExpectedErrors(_, _, _)
ExpectedErrors(items, outcomes, n) ==
    IF n = 0 THEN <<>>
    ELSE LET before == ExpectedErrors(items, outcomes, n - 1)
             casa == IF items[n].casa = Absent THEN "unknown" ELSE items[n].casa
         IN  IF outcomes[n] = NoExc THEN before
             ELSE Append(before, [casa |-> casa, exc |-> outcomes[n]])

\* C4: in a run that returns status=ok, errors holds one entry per item
\* that was not inserted, in upstream order, each naming that item's casa;
\* errors is null exactly when no item failed; inserted + entries = total.
C4_Errors ==
    \A r \in RunIds :
       (Returned(r) /\ runs[r].result.status = "ok") =>
          LET res == runs[r].result
              expected == ExpectedErrors(runs[r].data.items, runs[r].outcomes,
                                         Len(runs[r].data.items))
          IN  /\ res.errors.list = expected
              /\ res.errors.null = (expected = <<>>)
              /\ res.inserted + Len(res.errors.list) = res.total

\* the store failed on the second of two items: inserted = 1, total = 2 and
\* one error entry, naming the second item's casa
C4_Witness ==
    \E r \in RunIds :
       /\ runs[r].pc = "returned"
       /\ runs[r].result.status = "ok"
       /\ runs[r].result.inserted = 1
       /\ runs[r].result.total = 2
       /\ runs[r].outcomes = <<NoExc, "DatabaseError">>
       /\ runs[r].data.items[1].casa = "blue"
       /\ runs[r].result.errors.list = <<[casa |-> "oficial", exc |-> "DatabaseError"]>>

\* C5: a run over a non-empty array, every insert of which found the pool
\* uninitialised or closed, returns status=error with a message.
C5_GatewayNotReady ==
    \A r \in RunIds :
       (/\ Returned(r)
        /\ runs[r].upstream = "json"
        /\ runs[r].data.kind = "array"
        /\ runs[r].data.items # <<>>
        /\ Len(runs[r].outcomes) = Len(runs[r].data.items)
        /\ \A i \in 1..Len(runs[r].outcomes) :
              runs[r].outcomes[i] \in {"RuntimeError", "PoolClosed"})
       => /\ runs[r].result.status = "error"
          /\ "message" \in DOMAIN runs[r].result

\* C6: the call never raises to its caller: whatever the upstream response
\* and the store do, no exception leaves the outer try, the value returned
\* has status ok or error, and a call that was started returns.
C6_NeverRaises ==
    /\ [](\A r \in RunIds :
            /\ runs[r].pc # "raised"
            /\ Returned(r) => runs[r].result.status \in {"ok", "error"})
    /\ \A r \in RunIds : (runs[r].pc = "fetch") ~> Returned(r)

\* an exception raised inside the inner handler (an element that is not an
\* object) was turned into a returned outcome
C6_Witness ==
    \E r \in RunIds :
       /\ runs[r].pc = "returned"
       /\ runs[r].data.kind = "array"
       /\ runs[r].idx = 2
       /\ runs[r].result = [status |-> "error",
                            message |-> <<"Error: ", "AttributeError">>]

\* C7: POST /api/exchange/fetch and POST /run-job answer with a non-2xx
\* status whenever the outcome has status=error, and with 2xx only when it
\* has status=ok.
C7_ErrorIsNon2xx ==
    \A r \in RunIds :
       (runs[r].pc = "done" /\ runs[r].origin \in {"api_fetch", "run_job"}) =>
          /\ runs[r].result.status = "error" => runs[r].http \notin 200..299
          /\ runs[r].http \in 200..299 => runs[r].result.status = "ok"

ScheduledInFlight ==
    { r \in RunIds : runs[r].origin = "scheduled" /\ runs[r].pc # "done" }

\* C8: at most one scheduler-triggered cycle is in flight at any time.
C8_NoOverlap == Cardinality(ScheduledInFlight) <= 1

\* the last tick fired while a scheduled cycle was still at its upstream
\* call, and was skipped
C8_Witness ==
    /\ tick = "skipped"
    /\ \E r \in ScheduledInFlight : runs[r].pc = "fetch"

\* C9: after any number of startup events one job is registered, under the
\* id demo_scheduled_job, so one periodic trigger exists.
C9_OneJob ==
    /\ Len(jobs) <= 1
    /\ scheduler_state = "running" =>
          /\ Len(jobs) = 1
          /\ jobs[1].id = "demo_scheduled_job"

\* two startup events have run in this process
C9_Witness ==
    /\ startups >= 2
    /\ scheduler_state = "running"
    /\ Len(jobs) = 1

\* C10: a scheduled cycle always ends with a value returned by
\* scheduled_task, and while the process is not shut down the trigger stays:
\* the scheduler runs, the job is registered, the executor counts exactly the
\* cycles in flight, and a tick is skipped only while a cycle is in flight.
C10_TriggerSurvives ==
    /\ [](\A r \in RunIds :
            (runs[r].origin = "scheduled" /\ runs[r].pc = "done") =>
               runs[r].result.status \in {"ok", "error"})
    /\ [](lifecycle = "serving" =>
            /\ scheduler_state = "running"
            /\ JobIndex(jobs, "demo_scheduled_job") # {}
            /\ instances = Cardinality(ScheduledInFlight))
    /\ [][(tick' = "skipped" /\ tick # "skipped") => ScheduledInFlight # {}]_vars

\* a scheduled cycle failed, and a later tick started the next cycle
C10_Witness ==
    \E r1, r2 \in RunIds :
       /\ r1 < r2
       /\ runs[r1].origin = "scheduled"
       /\ runs[r1].pc = "done"
       /\ runs[r1].result.status = "error"
       /\ runs[r2].origin = "scheduled"
       /\ runs[r2].pc = "fetch"
       /\ tick = "started"

\* C11: for every item carrying numeric compra = b and venta = s whose insert
\* succeeded, the row written has buy = b, sell = s, rate = (b + s) / 2 and
\* diff = s - b exactly (2 * rate = buy + sell, buy + diff = sell), none of
\* them null: the four values are functions of the item's two prices alone.
C11_RateAndDiff ==
    \A r \in RunIds :
       LET rows == RowsOf(r)
           items == InsertedItems(runs[r].data.items, runs[r].outcomes,
                                  Len(runs[r].outcomes))
       IN  /\ Len(rows) = Len(items)
           /\ \A k \in 1..Len(rows) :
                 (items[k].compra.t = "num" /\ items[k].venta.t = "num") =>
                    LET b == items[k].compra.v    \* halves
                        s == items[k].venta.v
                        row == rows[k]
                    IN  /\ ~row.buy.null /\ ~row.sell.null
                        /\ ~row.rate.null /\ ~row.diff.null
                        /\ row.buy.v = 2 * b
                        /\ row.sell.v = 2 * s
                        /\ row.rate.v = b + s
                        /\ row.diff.v = 2 * (s - b)
                        /\ 2 * row.rate.v = row.buy.v + row.sell.v
                        /\ row.buy.v + row.diff.v = row.sell.v

\* a row was written whose rate is not a multiple of 0.5 and whose diff is
\* negative: compra = 1.0, venta = 0.5, rate = 0.75, diff = -0.5
C11_Witness ==
    \E r \in RunIds :
       /\ runs[r].pc = "done"
       /\ runs[r].data.items = << Obj("blue", Flt(2), Flt(1)) >>
       /\ RowsOf(r) # <<>>
       /\ RowsOf(r)[1].rate.v = 3
       /\ RowsOf(r)[1].diff.v = -2

\* C12: an item whose compra or venta key is absent is not an error and the
\* row persisted for it has rate = null and diff = null: its attempt raises
\* nothing but a failure of the store, and rate and diff of a row are
\* non-null only when the item carried both prices.
C12_AbsentPriceIsNull ==
    \A r \in RunIds :
       LET rows == RowsOf(r)
           items == InsertedItems(runs[r].data.items, runs[r].outcomes,
                                  Len(runs[r].outcomes))
       IN  /\ \A i \in 1..Len(runs[r].outcomes) :
                 LET item == runs[r].data.items[i]
                 IN  (item.kind = "obj"
                        /\ item.compra.t \in {"absent", "num"}
                        /\ item.venta.t \in {"absent", "num"}) =>
                          runs[r].outcomes[i] \in {NoExc} \cup PersistenceErrors
           /\ \A k \in 1..Len(rows) :
                 (items[k].compra.t = "absent" \/ items[k].venta.t = "absent") =>
                    rows[k].rate.null /\ rows[k].diff.null

\* C13: in a run that returns status=ok, exchanges holds every fetched item
\* exactly once, in upstream order, with the defaults for missing keys,
\* whether or not the item was inserted: its length is total, not inserted.
C13_AllItemsListed ==
    \A r \in RunIds :
       (Returned(r) /\ runs[r].result.status = "ok") =>
          LET res == runs[r].result
              items == runs[r].data.items
          IN  /\ Len(res.exchanges) = Len(items)
              /\ Len(res.exchanges) = res.total
              /\ \A i \in 1..Len(items) :
                    /\ res.exchanges[i].casa =
                          (IF items[i].casa = Absent THEN "unknown"
                           ELSE items[i].casa)
                    /\ res.exchanges[i].compra =
                          (IF items[i].compra.t = "absent" THEN Num(0)
                           ELSE items[i].compra)
                    /\ res.exchanges[i].venta =
                          (IF items[i].venta.t = "absent" THEN Num(0)
                           ELSE items[i].venta)

\* two items were fetched, neither was inserted, both are listed in order
C13_Witness ==
    \E r \in RunIds :
       /\ runs[r].pc = "returned"
       /\ runs[r].result.status = "ok"
       /\ runs[r].result.inserted = 0
       /\ runs[r].result.total = 2
       /\ Len(runs[r].result.exchanges) = 2
       /\ runs[r].result.exchanges[1].casa = "oficial"
       /\ runs[r].result.exchanges[2].casa = "blue"

\* C14: a requested run and a scheduled run may be in flight together, and
\* however their inserts interleave, the store is ordered by increasing id
\* and the rows of each run, taken in that order, are the items that run
\* inserted, in the order of its own upstream array.
C14_OwnOrderKept ==
    /\ \A i, j \in 1..Len(store) : i < j => store[i].id < store[j].id
    /\ \A r \in RunIds :
          LET rows == RowsOf(r)
              items == InsertedItems(runs[r].data.items, runs[r].outcomes,
                                     Len(runs[r].outcomes))
          IN  /\ Len(rows) = Len(items)
              /\ \A k \in 1..Len(rows) :
                    /\ rows[k].type = items[k].casa
                    /\ rows[k].buy.v = 2 * items[k].compra.v
                    /\ rows[k].sell.v = 2 * items[k].venta.v

\* a requested and a scheduled run are both in flight and their four rows
\* alternate in the store
C14_Witness ==
    \E r1, r2 \in RunIds :
       /\ runs[r1].origin = "api_fetch" /\ runs[r1].pc = "loop"
       /\ runs[r2].origin = "scheduled" /\ runs[r2].pc = "loop"
       /\ Len(store) = 4
       /\ store[1].by = r1 /\ store[2].by = r2
       /\ store[3].by = r1 /\ store[4].by = r2
       /\ store[1].type # store[3].type

\* the runs that went through the array d with every insert succeeding
CleanRuns(d) ==
    { r \in RunIds :
         /\ Returned(r)
         /\ runs[r].upstream = "json"
         /\ runs[r].data = d
         /\ Len(runs[r].outcomes) = Len(d.items)
         /\ \A i \in 1..Len(d.items) : runs[r].outcomes[i] = NoExc }

\* C15: no deduplication across runs: the k runs that went through the same
\* array of N items with every insert succeeding have added k * N rows, and
\* the ids of the store are pairwise distinct; an item is never skipped
\* because an equal row is already stored.
C15_NoDedup ==
    /\ \A r \in RunIds :
          LET d == runs[r].data
          IN  Cardinality({ i \in 1..Len(store) : store[i].by \in CleanRuns(d) })
                 = Cardinality(CleanRuns(d)) * Len(d.items)
    /\ \A i, j \in 1..Len(store) : i # j => store[i].id # store[j].id

\* two runs went through the same two items: four rows, the first item
\* stored twice with equal values under different ids
C15_Witness ==
    \E r1, r2 \in RunIds :
       /\ r1 # r2
       /\ runs[r1].data.items # <<>>
       /\ CleanRuns(runs[r1].data) = {r1, r2}
       /\ Len(store) = 4
       /\ \E i, j \in 1..4 :
             /\ store[i].by = r1 /\ store[j].by = r2
             /\ store[i].id # store[j].id
             /\ store[i].type = store[j].type
             /\ store[i].buy = store[j].buy /\ store[i].sell = store[j].sell
             /\ store[i].rate = store[j].rate /\ store[i].diff = store[j].diff

\* C16: the row a manual create inserts carries the type, buy, sell, rate
\* and diff of the payload as given, null where the payload has none and
\* never derived from buy and sell; a response with status=ok returns that
\* record; a payload with only type set gives a row of four nulls.
C16_StoredAsGiven ==
    LET p == creation.payload
    IN  /\ creation.new_id # 0 =>
              \E i \in 1..Len(store) :
                 /\ store[i].id = creation.new_id
                 /\ store[i].type = p.type
                 /\ \A f \in {"buy", "sell", "rate", "diff"} :
                       /\ store[i][f].null = p[f].null
                       /\ ~p[f].null => store[i][f].v = 2 * p[f].v
                 /\ (p.buy.null /\ p.sell.null /\ p.rate.null /\ p.diff.null) =>
                       /\ store[i].buy.null /\ store[i].sell.null
                       /\ store[i].rate.null /\ store[i].diff.null
        /\ (creation.pc \in {"returned", "done"}
               /\ creation.result.status = "ok") =>
              /\ creation.new_id # 0
              /\ creation.result.data.id = creation.new_id
              /\ creation.result.data.type = p.type
              /\ \A f \in {"buy", "sell", "rate", "diff"} :
                    creation.result.data[f] = p[f]

\* a create with buy = 0.5 and sell = 1.0 and neither rate nor diff was
\* answered with the record, after an earlier row: rate and diff are null
C16_Witness ==
    /\ creation.pc = "done"
    /\ creation.result.status = "ok"
    /\ creation.new_id = 2
    /\ creation.payload = Payload("manual", Some(1), Some(2), Null, Null)
    /\ store[2].rate.null /\ store[2].diff.null
    /\ creation.result.data.rate.null

\* C17: the store is append-only and its rows are immutable: no step of a
\* fetch run, a manual create, a list read, a scheduler tick, a startup or
\* the shutdown removes a row or changes the id, type, buy, sell, rate or
\* diff of a row that is in the store.
C17_AppendOnly ==
    [][/\ Len(store') >= Len(store)
       /\ \A i \in 1..Len(store) :
             /\ store'[i].id = store[i].id
             /\ store'[i].type = store[i].type
             /\ store'[i].buy = store[i].buy
             /\ store'[i].sell = store[i].sell
             /\ store'[i].rate = store[i].rate
             /\ store'[i].diff = store[i].diff]_vars

\* after the shutdown the store holds an earlier row, a row of a run and a
\* created row, all three of the same type, and the rows were listed
C17_Witness ==
    /\ lifecycle = "stopped"
    /\ Len(store) = 3
    /\ store[1] = OldRow
    /\ store[2].by = 1
    /\ store[2].type = store[1].type
    /\ store[3].type = "blue"
    /\ store[3].rate.null
    /\ creation.pc = "done"
    /\ listing.status = "ok"
    /\ Len(listing.data) = 3

\* C18: a call that goes through run_job, from POST /run-job or from
\* scheduled_task, always ends with a value of status ok or error: the
\* value the pipeline returned, unchanged; status=error with the text of
\* the exception if the pipeline raised; status=error with a message if the
\* pipeline is unavailable. Both origins get the same handling.
C18_RunJobWraps ==
    /\ [](\A r \in RunIds :
            (runs[r].origin \in {"run_job", "scheduled"} /\ runs[r].pc = "done")
               => runs[r].result.status \in {"ok", "error"})
    /\ [][\A r \in RunIds :
            (/\ runs[r].origin \in {"run_job", "scheduled"}
             /\ runs[r].pc # "done"
             /\ runs'[r].pc = "done") =>
               /\ runs[r].pc \in {"returned", "raised", "unavailable"}
               /\ runs[r].pc = "returned" => runs'[r].result = runs[r].result
               /\ runs[r].pc = "raised" =>
                     /\ runs'[r].result.status = "error"
                     /\ \E k \in DOMAIN runs'[r].result.message :
                           runs'[r].result.message[k] = runs[r].exc
               /\ runs[r].pc = "unavailable" =>
                     /\ runs'[r].result.status = "error"
                     /\ runs'[r].result.message # <<>>]_vars

\* a scheduled call whose pipeline raised RuntimeError ended with
\* status=error and that text in the message
C18_Witness ==
    \E r \in RunIds :
       /\ runs[r].origin = "scheduled"
       /\ runs[r].pc = "done"
       /\ runs[r].exc = "RuntimeError"
       /\ runs[r].result =
             [status |-> "error", message |-> <<"Job failed: ", "RuntimeError">>]

ShutdownRun == lifecycle \in {"stopping", "closing", "stopped"}

\* C19: once shutdown_event has stopped the scheduler, the scheduler stays
\* stopped and no scheduled cycle starts any more; the handler, once it has
\* started, runs to its end although a cycle is still running, for it never
\* waits for the cycle.
C19_ShutdownStops ==
    /\ [](ShutdownRun => scheduler_state = "stopped" /\ jobs = <<>>)
    /\ [][ShutdownRun =>
            /\ ShutdownRun'
            /\ \A r \in RunIds :
                  runs[r].origin # "scheduled" => runs'[r].origin # "scheduled"]_vars
    /\ \A r \in RunIds :
          (lifecycle = "stopping" /\ r \in ScheduledInFlight /\ runs[r].pc = "fetch")
             ~> (lifecycle = "stopped")

\* the handler has finished while a scheduled cycle is still at its upstream
\* call and a run slot is free
C19_Witness ==
    /\ lifecycle = "stopped"
    /\ \E r \in ScheduledInFlight : runs[r].pc = "fetch"
    /\ \E r \in RunIds : runs[r].pc = "idle"

\* C20: the periodic job is registered with an interval of
\* SCHEDULER_INTERVAL_HOURS hours, whatever value the configuration gives it.
C20_IntervalFromConfig ==
    \A j \in 1..Len(jobs) : jobs[j].hours = SCHEDULER_INTERVAL_HOURS

\* C21: a run that returns status=error, whatever the cause, has performed
\* no insert: a run that has persisted a record ends with status=ok.
C21_ErrorMeansNoInsert ==
    \A r \in RunIds :
       (Returned(r) /\ runs[r].result.status = "error") => RowsBy(r) = {}

\* C22: when shutdown_event closes the pool while a fetch cycle is in
\* flight, the cycle runs to completion without raising, every item not yet
\* inserted at the moment of the close is recorded as a per-item error, no
\* record is inserted after the close, the records inserted before it remain
\* intact, and close_pool always leaves the pool handle as None.  The cycle
\* was in flight when the pool was closed if it holds a connection or has
\* already inserted a record, and the pool is no longer open.
C22_CloseDuringCycle ==
    /\ [](\A r \in RunIds : runs[r].pc # "raised")
    /\ \A r \in RunIds :
          (runs[r].pc \in {"fetch", "loop", "insert"}) ~> Returned(r)
    /\ [][\A r \in RunIds :
            (/\ lifecycle \in {"closing", "stopped"}
             /\ pool # "open"
             /\ \/ runs[r].pc = "insert"
                \/ /\ runs[r].pc = "loop"
                   /\ \E i \in 1..Len(runs[r].outcomes) :
                         runs[r].outcomes[i] = NoExc
             /\ runs'[r].idx = runs[r].idx + 1)
            => /\ Len(runs'[r].errors) = Len(runs[r].errors) + 1
               /\ runs'[r].pc = "loop"]_vars
    /\ [][(lifecycle \in {"closing", "stopped"} /\ pool # "open")
            => store' = store]_vars
    /\ [][/\ Len(store') >= Len(store)
          /\ \A i \in 1..Len(store) : store'[i] = store[i]]_vars
    /\ [](lifecycle = "stopped" => pool = "none")

====
